---- MODULE Spec2Model ----
(***************************************************************************)
(* Model of demo_app/app.py: a Flask dashboard over one S3 bucket.         *)
(*                                                                         *)
(*   - the bucket behind the module-level s3 client (the backend),         *)
(*   - get_bucket_info(): one list_objects_v2 call, then one head_object   *)
(*     call per listed entry, folded into (objects, total_bytes,           *)
(*     sc_counts),                                                         *)
(*   - the GET handlers (index, /api/summary) that derive used_mb and      *)
(*     usage_percentage from total_bytes and BUCKET_QUOTA_MB,              *)
(*   - the POST handler of index that uploads a file under the key         *)
(*     utcnow().strftime('%Y%m%d%H%M%S_') + secure_filename(name).         *)
(*                                                                         *)
(* Every backend call is one step of a request; the statements between two *)
(* backend calls touch only the request's locals and belong to the step of *)
(* the call they follow.  Other clients of the bucket (deletes, lifecycle  *)
(* transitions between storage classes) and the wall clock are the         *)
(* environment.                                                            *)
(***************************************************************************)
EXTENDS Integers, Sequences, FiniteSets, TLC

\* ------------------------------------------------------------------ bounds

\* The wall clock runs from tick 0 to MaxTick.
MaxTick == 2
\* Puts, deletes and storage-class transitions applied to the bucket in a run.
MaxMutations == 2

\* --------------------------------------------------------------- constants

\* Clock ticks per second: strftime('%Y%m%d%H%M%S_') drops what is below one
\* second, so two ticks of the same second format to the same prefix.
TicksPerSecond == 2
\* Entries one list_objects_v2 response holds at most (S3: 1000; scaled down).
\* The code passes no MaxKeys and never follows NextContinuationToken.
MaxKeys == 2

MB == 1024 * 1024

\* GET requests in flight at once (each runs its own get_bucket_info).
Requests == {1, 2}
Ticks == 0..MaxTick
Seconds == 0..(MaxTick \div TicksPerSecond)

\* File names as the browser sends them; "" is the empty file field.
RawNames == {"", "a.txt", "../a.txt", "b.txt"}
\* Upload bodies by their length in bytes.
BodySizes == {MB, 2 * MB}
\* Storage classes the backend knows.
StorageClasses == {"STANDARD", "GLACIER"}
\* Values of the BUCKET_QUOTA_MB environment variable (whole megabytes).
QuotaValues == {-10, 0, 1, 20}

\* werkzeug's secure_filename on the names above: path separators and the
\* leading dots of "../a.txt" are dropped.
secure_filename(raw) == IF raw = "../a.txt" THEN "a.txt" ELSE raw

Names == {secure_filename(raw) : raw \in RawNames \ {""}}

\* An object key "YYYYMMDDHHMMSS_<name>" as <<second, name>>; second -1 is
\* the second before the application started.
Keys == ({-1} \cup Seconds) \X Names

\* datetime.utcnow().strftime('%Y%m%d%H%M%S_'): the clock cut to whole seconds.
strftime(tick) == tick \div TicksPerSecond

\* -------------------------------------------------------------------- dict

EmptyDict == [c \in {} |-> 0]

\* d.get(k, default)
Get(d, k, default) == IF k \in DOMAIN d THEN d[k] ELSE default

\* d[k] = v
Put(d, k, v) == [c \in DOMAIN d \cup {k} |-> IF c = k THEN v ELSE d[c]]

\* ----------------------------------------------------------------- backend

\* Byte order of the names, which is the order S3 lists keys in.
NameRank(n) == IF n = "a.txt" THEN 1 ELSE 2

KeyLess(k1, k2) ==
    \/ k1[1] < k2[1]
    \/ k1[1] = k2[1] /\ NameRank(k1[2]) < NameRank(k2[2])

RECURSIVE SortedKeys(_)
SortedKeys(S) ==
    IF S = {} THEN <<>>
    ELSE LET k == CHOOSE m \in S : \A o \in S \ {m} : KeyLess(m, o)
         IN  <<k>> \o SortedKeys(S \ {k})

Prefix(s, n) == IF Len(s) <= n THEN s ELSE SubSeq(s, 1, n)

\* Contents of a successful list_objects_v2(Bucket=BUCKET_NAME) response on
\* bucket b: the first MaxKeys keys in key order (the rest is announced by
\* IsTruncated, which the code does not read).
ListContents(b) ==
    LET ks == Prefix(SortedKeys(DOMAIN b), MaxKeys)
    IN  [j \in 1..Len(ks) |->
            [Key |-> ks[j], Size |-> b[ks[j]].Size,
             LastModified |-> b[ks[j]].LastModified]]

\* The responses head_object(Bucket=BUCKET_NAME, Key=key) can succeed with:
\* none when the key is gone (404 raises); otherwise the object's class, and
\* for a STANDARD object also a response without the StorageClass field.
HeadResponses(b, key) ==
    IF key \notin DOMAIN b THEN {}
    ELSE {[StorageClass |-> b[key].StorageClass]}
         \cup (IF b[key].StorageClass = "STANDARD" THEN {EmptyDict} ELSE {})

\* ------------------------------------------------------------- aggregation

\* What one head_object call came to, as the loop body sees it: "raised", or
\* the response's StorageClass field, or "no-field" when the response has none.
Outcome(head) == Get(head, "StorageClass", "no-field")

HeadOutcomes(b, key) == {Outcome(h) : h \in HeadResponses(b, key)} \cup {"raised"}

\* Mutants of StorageClassOf: another default label; a default of GLACIER.
StorageClassOfUnknown(outcome) ==
    IF outcome \in {"raised", "no-field"} THEN "UNKNOWN" ELSE outcome

StorageClassOfGlacier(outcome) ==
    IF outcome \in {"raised", "no-field"} THEN "GLACIER" ELSE outcome

\* Lines 56-61: sc = "STANDARD"; try: sc = head.get('StorageClass', 'STANDARD')
\* except Exception: pass.
StorageClassOf(outcome) ==
    IF outcome \in {"raised", "no-field"} THEN "STANDARD" ELSE outcome

\* Mutant of AddBytes: total_bytes = size.
AddBytesAssign(total, size) == size

\* Line 53: total_bytes += size
AddBytes(total, size) == total + size

\* Mutant of Tally: sc_counts[sc] = 1.
TallyAssign(counts, sc) == Put(counts, sc, 1)

\* Line 64: sc_counts[sc] = sc_counts.get(sc, 0) + 1
Tally(counts, sc) == Put(counts, sc, Get(counts, sc, 0) + 1)

\* Lines 66-71: the appended record.
Record(obj, sc) ==
    [Key |-> obj.Key, Size |-> obj.Size, LastModified |-> obj.LastModified,
     StorageClass |-> sc]

\* Mutant of ExceptOuter: no outer handler, the exception leaves the call.
ExceptOuterMissing == "raised"

\* Lines 73-74: the outer handler catches the exception, prints a warning and
\* falls through to the return statement.
ExceptOuter == "return"

\* ------------------------------------------------------------------- usage

\* round(n / d) for n >= 0, d > 0, ties to the even neighbour, as Python's
\* round does on an exactly representable tie.
RoundHalfEven(n, d) ==
    LET q == n \div d
        twice == 2 * (n % d)
    IN  IF twice < d THEN q
        ELSE IF twice > d THEN q + 1
        ELSE IF q % 2 = 0 THEN q ELSE q + 1

\* round(total_bytes / (1024 * 1024), 2), in hundredths of a megabyte.
UsedMb(total) == RoundHalfEven(total * 100, MB)

\* min((used_mb / BUCKET_QUOTA_MB) * 100, 100) as the fraction num/den with
\* den > 0, used in hundredths; a zero quota raises ZeroDivisionError.
UsagePercentage(used, quota) ==
    IF quota = 0 THEN [kind |-> "ZeroDivisionError", num |-> 0, den |-> 1]
    ELSE LET num == IF quota > 0 THEN used ELSE -used
             den == IF quota > 0 THEN quota ELSE -quota
         IN  IF num > 100 * den
             THEN [kind |-> "value", num |-> 100, den |-> 1]
             ELSE [kind |-> "value", num |-> num, den |-> den]

NoUsage == [kind |-> "none", num |-> 0, den |-> 1]

VARIABLES
    now,              \* wall clock, in ticks
    BUCKET_QUOTA_MB,  \* configuration, read once at import
    bucket,           \* the backend: key -> [Size, LastModified, StorageClass]
    hist,             \* every state the bucket has been in, oldest first
    deleted,          \* whether another client has deleted an object
    nUploaded,        \* uploads the POST handler reported successful
    pc,               \* per request: idle, list, loop, return, done
    resp,             \* per request: resp.get('Contents', [])
    idx,              \* per request: position of the for loop in resp
    objects,          \* per request: local objects
    total_bytes,      \* per request: local total_bytes
    sc_counts,        \* per request: local sc_counts
    used_mb,          \* per request: used_mb, in hundredths of a megabyte
    usage_percentage, \* per request: usage_percentage, or the error raised
    listed,           \* per request: pending, ok, raised (the list call)
    heads,            \* per request: outcome of each head_object call so far
    startIdx,         \* per request: Len(hist) when the call started
    endIdx,           \* per request: Len(hist) when the call returned
    startedAfter      \* per request: the calls already returned at its start

envVars == <<now, BUCKET_QUOTA_MB, bucket, hist, deleted, nUploaded>>

reqVars == <<pc, resp, idx, objects, total_bytes, sc_counts, used_mb,
             usage_percentage, listed, heads, startIdx, endIdx, startedAfter>>

vars == <<envVars, reqVars>>

\* What the bucket holds when the application starts: nothing, or objects
\* written the second before (a.txt of 1 MB, b.txt of 2 MB), in any class.
InitialObjects(k) ==
    [Size : {IF k[2] = "a.txt" THEN MB ELSE 2 * MB}, LastModified : {-1},
     StorageClass : StorageClasses]

InitialBuckets ==
    UNION {{b \in [S -> UNION {InitialObjects(k) : k \in S}] :
              \A k \in S : b[k] \in InitialObjects(k)} :
             S \in SUBSET {k \in Keys : k[1] = -1}}

InitRest ==
    /\ now = 0
    /\ bucket \in InitialBuckets
    /\ hist = <<bucket>>
    /\ deleted = FALSE
    /\ nUploaded = 0
    /\ pc = [r \in Requests |-> "idle"]
    /\ resp = [r \in Requests |-> <<>>]
    /\ idx = [r \in Requests |-> 1]
    /\ objects = [r \in Requests |-> <<>>]
    /\ total_bytes = [r \in Requests |-> 0]
    /\ sc_counts = [r \in Requests |-> EmptyDict]
    /\ used_mb = [r \in Requests |-> 0]
    /\ usage_percentage = [r \in Requests |-> NoUsage]
    /\ listed = [r \in Requests |-> "pending"]
    /\ heads = [r \in Requests |-> <<>>]
    /\ startIdx = [r \in Requests |-> 1]
    /\ endIdx = [r \in Requests |-> 1]
    /\ startedAfter = [r \in Requests |-> {}]

\* Line 21 with BUCKET_QUOTA_MB unset: float(20).
Init == BUCKET_QUOTA_MB = 20 /\ InitRest

\* Line 21 with BUCKET_QUOTA_MB set in the environment.
InitConfigured == BUCKET_QUOTA_MB \in QuotaValues /\ InitRest

\* ------------------------------------------------------------- environment

Tick ==
    /\ now < MaxTick
    /\ now' = now + 1
    /\ UNCHANGED <<BUCKET_QUOTA_MB, bucket, hist, deleted, nUploaded>>
    /\ UNCHANGED reqVars

Mutate(b) ==
    /\ Len(hist) <= MaxMutations
    /\ bucket' = b
    /\ hist' = Append(hist, b)

\* Another client deletes an object.
Delete(k) ==
    /\ k \in DOMAIN bucket
    /\ Mutate([j \in DOMAIN bucket \ {k} |-> bucket[j]])
    /\ deleted' = TRUE
    /\ UNCHANGED <<now, BUCKET_QUOTA_MB, nUploaded>>
    /\ UNCHANGED reqVars

\* A lifecycle rule moves an object to another storage class.
Transition(k, c) ==
    /\ k \in DOMAIN bucket
    /\ c # bucket[k].StorageClass
    /\ Mutate([bucket EXCEPT ![k].StorageClass = c])
    /\ UNCHANGED <<now, BUCKET_QUOTA_MB, deleted, nUploaded>>
    /\ UNCHANGED reqVars

\* ------------------------------------------------------------ POST handler

\* Line 99: s3_key = datetime.utcnow().strftime('%Y%m%d%H%M%S_') + filename
S3Key(tick, filename) == <<strftime(tick), filename>>

\* Lines 90-110: index() on POST with file name raw and a body of size bytes.
Upload(raw, size) ==
    /\ UNCHANGED <<now, BUCKET_QUOTA_MB, deleted>>
    /\ UNCHANGED reqVars
    /\ \/ \* lines 93-95: no file selected
          /\ raw = ""
          /\ UNCHANGED <<bucket, hist, nUploaded>>
       \/ \* lines 98-106: put_object returns, "uploaded successfully"
          /\ raw # ""
          /\ Mutate(Put(bucket, S3Key(now, secure_filename(raw)),
                        [Size |-> size, LastModified |-> now,
                         StorageClass |-> "STANDARD"]))
          /\ nUploaded' = nUploaded + 1
       \/ \* lines 107-108: put_object raises, "Upload failed"
          /\ raw # ""
          /\ UNCHANGED <<bucket, hist, nUploaded>>

\* ------------------------------------------------------------ GET handlers

\* Mutant of Start: objects, total_bytes and sc_counts are module-level and
\* keep what the previous call left in them.
StartKeeping(r) ==
    /\ pc[r] \in {"idle", "done"}
    /\ pc' = [pc EXCEPT ![r] = "list"]
    /\ resp' = [resp EXCEPT ![r] = <<>>]
    /\ idx' = [idx EXCEPT ![r] = 1]
    /\ used_mb' = [used_mb EXCEPT ![r] = 0]
    /\ usage_percentage' = [usage_percentage EXCEPT ![r] = NoUsage]
    /\ listed' = [listed EXCEPT ![r] = "pending"]
    /\ heads' = [heads EXCEPT ![r] = <<>>]
    /\ startIdx' = [startIdx EXCEPT ![r] = Len(hist)]
    /\ endIdx' = [endIdx EXCEPT ![r] = Len(hist)]
    /\ startedAfter' =
         [q \in Requests |->
            IF q = r THEN {o \in Requests \ {r} : pc[o] = "done"}
            ELSE startedAfter[q] \ {r}]
    /\ UNCHANGED <<objects, total_bytes, sc_counts>>
    /\ UNCHANGED envVars

\* Lines 43-45: a GET handler calls get_bucket_info, which starts on fresh
\* locals.
Start(r) ==
    /\ pc[r] \in {"idle", "done"}
    /\ pc' = [pc EXCEPT ![r] = "list"]
    /\ objects' = [objects EXCEPT ![r] = <<>>]
    /\ total_bytes' = [total_bytes EXCEPT ![r] = 0]
    /\ sc_counts' = [sc_counts EXCEPT ![r] = EmptyDict]
    /\ resp' = [resp EXCEPT ![r] = <<>>]
    /\ idx' = [idx EXCEPT ![r] = 1]
    /\ used_mb' = [used_mb EXCEPT ![r] = 0]
    /\ usage_percentage' = [usage_percentage EXCEPT ![r] = NoUsage]
    /\ listed' = [listed EXCEPT ![r] = "pending"]
    /\ heads' = [heads EXCEPT ![r] = <<>>]
    /\ startIdx' = [startIdx EXCEPT ![r] = Len(hist)]
    /\ endIdx' = [endIdx EXCEPT ![r] = Len(hist)]
    /\ startedAfter' =
         [q \in Requests |->
            IF q = r THEN {o \in Requests \ {r} : pc[o] = "done"}
            ELSE startedAfter[q] \ {r}]
    /\ UNCHANGED envVars

\* Lines 48-49: list_objects_v2 answers.
ListOk(r) ==
    /\ pc[r] = "list"
    /\ resp' = [resp EXCEPT ![r] = ListContents(bucket)]
    /\ listed' = [listed EXCEPT ![r] = "ok"]
    /\ pc' = [pc EXCEPT ![r] = "loop"]
    /\ UNCHANGED <<idx, objects, total_bytes, sc_counts, used_mb,
                   usage_percentage, heads, startIdx, endIdx, startedAfter>>
    /\ UNCHANGED envVars

\* Lines 48, 73-74: list_objects_v2 raises.
ListRaises(r) ==
    /\ pc[r] = "list"
    /\ listed' = [listed EXCEPT ![r] = "raised"]
    /\ pc' = [pc EXCEPT ![r] = ExceptOuter]
    /\ UNCHANGED <<resp, idx, objects, total_bytes, sc_counts, used_mb,
                   usage_percentage, heads, startIdx, endIdx, startedAfter>>
    /\ UNCHANGED envVars

\* Mutant of LoopDone: the loop stops one entry early.
LoopDoneEarly(i, n) == i >= n

\* Line 49: the for loop has run out of entries once its position i is past
\* the n entries of Contents.
LoopDone(i, n) == i > n

\* Mutant of LoopBody: "continue" in place of "pass" in the inner handler, so
\* an entry whose lookup raised is neither tallied nor appended.
LoopBodySkipping(r, obj, outcome) ==
    /\ total_bytes' = [total_bytes EXCEPT ![r] = AddBytes(@, obj.Size)]
    /\ IF outcome = "raised"
       THEN UNCHANGED <<sc_counts, objects>>
       ELSE /\ sc_counts' = [sc_counts EXCEPT
                               ![r] = Tally(@, StorageClassOf(outcome))]
            /\ objects' = [objects EXCEPT
                             ![r] = Append(@, Record(obj, StorageClassOf(outcome)))]

\* Lines 50-71: the loop body on entry obj, whose head_object call came to
\* outcome.
LoopBody(r, obj, outcome) ==
    LET sc == StorageClassOf(outcome)
    IN  /\ total_bytes' = [total_bytes EXCEPT ![r] = AddBytes(@, obj.Size)]
        /\ sc_counts' = [sc_counts EXCEPT ![r] = Tally(@, sc)]
        /\ objects' = [objects EXCEPT ![r] = Append(@, Record(obj, sc))]

\* Lines 49-71: one pass of the loop, around its head_object call.
HeadObject(r) ==
    /\ pc[r] = "loop"
    /\ ~LoopDone(idx[r], Len(resp[r]))
    /\ \E outcome \in HeadOutcomes(bucket, resp[r][idx[r]].Key) :
          /\ LoopBody(r, resp[r][idx[r]], outcome)
          /\ heads' = [heads EXCEPT ![r] = Append(@, outcome)]
    /\ idx' = [idx EXCEPT ![r] = @ + 1]
    /\ UNCHANGED <<pc, resp, used_mb, usage_percentage, listed, startIdx,
                   endIdx, startedAfter>>
    /\ UNCHANGED envVars

\* Line 76, then lines 113-115 (index) and 176-178 (api_summary): the call
\* returns its locals and the handler derives the usage figures.
Return(r) ==
    /\ \/ pc[r] = "return"
       \/ pc[r] = "loop" /\ LoopDone(idx[r], Len(resp[r]))
    /\ pc' = [pc EXCEPT ![r] = "done"]
    /\ endIdx' = [endIdx EXCEPT ![r] = Len(hist)]
    /\ used_mb' = [used_mb EXCEPT ![r] = UsedMb(total_bytes[r])]
    /\ usage_percentage' =
         [usage_percentage EXCEPT
            ![r] = UsagePercentage(UsedMb(total_bytes[r]), BUCKET_QUOTA_MB)]
    /\ UNCHANGED <<resp, idx, objects, total_bytes, sc_counts, listed, heads,
                   startIdx, startedAfter>>
    /\ UNCHANGED envVars

\* The steps of GET request r.
GetRequest(r) ==
    \/ Start(r)
    \/ ListOk(r)
    \/ ListRaises(r)
    \/ HeadObject(r)
    \/ Return(r)

\* One GET request at a time, uploads and the other clients.
Next ==
    \/ \E k \in Keys : Delete(k)
    \/ \E k \in Keys, c \in StorageClasses : Transition(k, c)
    \/ \E raw \in RawNames, size \in BodySizes : Upload(raw, size)
    \/ GetRequest(1)

Spec == Init /\ [][Next]_vars

\* GET requests running side by side while lifecycle rules move objects
\* between storage classes.
NextConcurrent ==
    \/ \E k \in Keys, c \in StorageClasses : Transition(k, c)
    \/ \E r \in Requests : GetRequest(r)

SpecConcurrent == Init /\ [][NextConcurrent]_vars

\* One GET request at a time and uploads, under any configured quota.
NextConfigured ==
    \/ \E raw \in RawNames, size \in BodySizes : Upload(raw, size)
    \/ GetRequest(1)

SpecConfigured == InitConfigured /\ [][NextConfigured]_vars

\* Uploads as the clock advances, and deletes by other clients.
NextUploads ==
    \/ Tick
    \/ \E raw \in RawNames, size \in BodySizes : Upload(raw, size)
    \/ \E k \in Keys : Delete(k)

SpecUploads == Init /\ [][NextUploads]_vars

\* ------------------------------------------------------- properties: tools

RECURSIVE SumSizes(_)
SumSizes(recs) ==
    IF recs = <<>> THEN 0 ELSE recs[1].Size + SumSizes(Tail(recs))

CountClass(recs, c) ==
    Cardinality({i \in 1..Len(recs) : recs[i].StorageClass = c})

ClassesOf(recs) == {recs[i].StorageClass : i \in 1..Len(recs)}

KeysOf(recs) == {recs[i].Key : i \in 1..Len(recs)}

RECURSIVE SumCounts(_)
SumCounts(d) ==
    IF DOMAIN d = {} THEN 0
    ELSE LET c == CHOOSE x \in DOMAIN d : TRUE
         IN  d[c] + SumCounts([x \in DOMAIN d \ {c} |-> d[x]])

RECURSIVE BucketBytes(_)
BucketBytes(b) ==
    IF DOMAIN b = {} THEN 0
    ELSE LET k == CHOOSE x \in DOMAIN b : TRUE
         IN  b[k].Size + BucketBytes([x \in DOMAIN b \ {k} |-> b[x]])

Raised(r) == {i \in 1..Len(heads[r]) : heads[r][i] = "raised"}

Returned(r) == pc[r] = "done"

EmptySummary(r) ==
    objects[r] = <<>> /\ total_bytes[r] = 0 /\ sc_counts[r] = EmptyDict

\* Key -> [Size, StorageClass] of what a call returned, and of a bucket state.
ReturnedView(r) ==
    [k \in KeysOf(objects[r]) |->
        LET i == CHOOSE j \in 1..Len(objects[r]) : objects[r][j].Key = k
        IN  [Size |-> objects[r][i].Size,
             StorageClass |-> objects[r][i].StorageClass]]

BucketView(b) ==
    [k \in DOMAIN b |-> [Size |-> b[k].Size, StorageClass |-> b[k].StorageClass]]

\* The instants of a call: the bucket states between its start and its return.
Instants(r) == startIdx[r]..endIdx[r]

\* ---------------------------------------------------------------------- C1

\* C1: when the list call returned N entries, get_bucket_info returns exactly
\* N records and the i-th record carries the Key, Size and LastModified of the
\* i-th entry, whatever the head_object calls did.
C1_OneRecordPerEntry ==
    \A r \in Requests :
        Returned(r) /\ listed[r] = "ok" =>
            /\ Len(objects[r]) = Len(resp[r])
            /\ \A i \in 1..Len(resp[r]) :
                  /\ objects[r][i].Key = resp[r][i].Key
                  /\ objects[r][i].Size = resp[r][i].Size
                  /\ objects[r][i].LastModified = resp[r][i].LastModified

\* A returned call that listed two entries and whose every lookup raised.
C1_Witness ==
    /\ Returned(1) /\ listed[1] = "ok"
    /\ Len(resp[1]) = 2 /\ Len(objects[1]) = 2
    /\ Raised(1) = {1, 2}

\* ---------------------------------------------------------------------- C2

\* C2: each record's StorageClass is the class its own lookup returned, and
\* STANDARD when that lookup raised; a raised lookup is counted under STANDARD
\* and the loop goes on: record j is made of entry j and of lookup j alone.
C2_FailedLookupIsStandard ==
    \A r \in Requests :
        /\ Len(heads[r]) = Len(objects[r])
        /\ \A i \in 1..Len(objects[r]) :
              /\ heads[r][i] \in StorageClasses =>
                    objects[r][i].StorageClass = heads[r][i]
              /\ heads[r][i] = "raised" =>
                    objects[r][i].StorageClass = "STANDARD"
              /\ objects[r][i].Key = resp[r][i].Key
              /\ objects[r][i].Size = resp[r][i].Size
        /\ Raised(r) # {} =>
              /\ "STANDARD" \in DOMAIN sc_counts[r]
              /\ sc_counts[r]["STANDARD"] >= Cardinality(Raised(r))
        /\ Returned(r) /\ listed[r] = "ok" => Len(objects[r]) = Len(resp[r])

\* The lookup of the first entry raised, the lookup of the second returned
\* GLACIER, and the call returned both records.
C2_Witness ==
    /\ Returned(1) /\ Len(objects[1]) = 2
    /\ heads[1] = <<"raised", "GLACIER">>
    /\ objects[1][2].StorageClass = "GLACIER"

\* ---------------------------------------------------------------------- C3

\* C3: whatever a call returns, its total_bytes is the sum of Size over its
\* returned records, also while another request runs its own aggregation.
C3_TotalIsSumOfSizes ==
    \A r \in Requests :
        Returned(r) => total_bytes[r] = SumSizes(objects[r])

\* One call returned 3145728 for sizes 1048576 and 2097152 while the other
\* request is in the middle of its loop.
C3_Witness ==
    /\ Returned(1) /\ Len(objects[1]) = 2
    /\ objects[1][1].Size = 1048576 /\ objects[1][2].Size = 2097152
    /\ total_bytes[1] = 3145728
    /\ pc[2] = "loop" /\ idx[2] = 2

\* ---------------------------------------------------------------------- C4

\* C4: the returned sc_counts is the histogram of the returned records'
\* StorageClass: each count is the number of records of that class, only
\* classes that occur are keys, and the counts add up to the number of
\* records.
C4_CountsAreHistogram ==
    \A r \in Requests :
        Returned(r) =>
            /\ DOMAIN sc_counts[r] = ClassesOf(objects[r])
            /\ \A c \in DOMAIN sc_counts[r] \cup StorageClasses :
                  Get(sc_counts[r], c, 0) = CountClass(objects[r], c)
            /\ SumCounts(sc_counts[r]) = Len(objects[r])

\* A returned call with two records of one class.
C4_Witness ==
    /\ Returned(1) /\ Len(objects[1]) = 2
    /\ sc_counts[1] = [c \in {"GLACIER"} |-> 2]

\* ---------------------------------------------------------------------- C5

\* C5: no failure of a backend call leaves get_bucket_info as an exception,
\* and a call whose list call raised returns the empty summary.
C5_ListFailureIsEmptySummary ==
    \A r \in Requests :
        /\ pc[r] \in {"idle", "list", "loop", "return", "done"}
        /\ listed[r] = "raised" => pc[r] \in {"return", "done"}
        /\ Returned(r) /\ listed[r] = "raised" => EmptySummary(r)

\* A call on a bucket that holds objects returned after its list call raised.
C5_Witness ==
    /\ Returned(1) /\ listed[1] = "raised"
    /\ DOMAIN hist[endIdx[1]] # {}
    /\ EmptySummary(1)

\* ---------------------------------------------------------------------- C6

\* C6: the usage_percentage a GET handler computes is a number between 0 and
\* 100, whatever the total and whatever BUCKET_QUOTA_MB is configured.
C6_UsageWithinBounds ==
    \A r \in Requests :
        Returned(r) =>
            /\ usage_percentage[r].kind = "value"
            /\ 0 <= usage_percentage[r].num
            /\ usage_percentage[r].num <= 100 * usage_percentage[r].den

\* ---------------------------------------------------------------------- C7

\* C7 as claimed, for a call none of whose backend calls raised: the keys,
\* sizes and storage classes it returns are those the bucket held at one
\* instant between the start and the return of the call.
C7_ConsistentSnapshot ==
    \A r \in Requests :
        Returned(r) /\ listed[r] = "ok" /\ Raised(r) = {} =>
            \E t \in Instants(r) : BucketView(hist[t]) = ReturnedView(r)

Min(a, b) == IF a <= b THEN a ELSE b

\* recs holds, in listing order, the first MaxKeys keys of bucket state b with
\* their sizes and modification times.
FirstPageOf(b, recs) ==
    /\ KeysOf(recs) \subseteq DOMAIN b
    /\ Cardinality(KeysOf(recs)) = Len(recs)
    /\ Len(recs) = Min(MaxKeys, Cardinality(DOMAIN b))
    /\ \A k \in KeysOf(recs) : \A o \in DOMAIN b \ KeysOf(recs) : KeyLess(k, o)
    /\ \A i \in 1..Len(recs) :
          /\ recs[i].Size = b[recs[i].Key].Size
          /\ recs[i].LastModified = b[recs[i].Key].LastModified
          /\ \A j \in 1..Len(recs) : i < j => KeyLess(recs[i].Key, recs[j].Key)

\* Record i of call r has the class STANDARD or the class its object had at
\* instant t.
ClassAt(r, i, t) ==
    \/ objects[r][i].StorageClass = "STANDARD"
    \/ /\ objects[r][i].Key \in DOMAIN hist[t]
       /\ hist[t][objects[r][i].Key].StorageClass = objects[r][i].StorageClass

\* Records i, i+1, ... of call r have classes their objects had at instants
\* of the call that follow one another from instant t on.
RECURSIVE ClassesInOrder(_, _, _)
ClassesInOrder(r, i, t) ==
    \/ i > Len(objects[r])
    \/ \E u \in t..endIdx[r] : ClassAt(r, i, u) /\ ClassesInOrder(r, i + 1, u)

\* C7 amended: a call whose list call raised returns the empty summary;
\* otherwise the returned keys, sizes and modification times are the first
\* page of the bucket at one instant t0 of the call, and each record's class
\* is STANDARD or the class that object had at an instant of its own, these
\* instants following t0 in listing order.
C7_PerCallInstants ==
    \A r \in Requests :
        Returned(r) =>
            /\ listed[r] = "raised" => EmptySummary(r)
            /\ listed[r] = "ok" =>
                  \E t0 \in Instants(r) :
                      /\ FirstPageOf(hist[t0], objects[r])
                      /\ ClassesInOrder(r, 1, t0)

\* A call none of whose backend calls raised, on a bucket that never held
\* more than one page, returned two records that the bucket held together at
\* no instant of the call.
C7_Witness ==
    /\ Returned(1) /\ listed[1] = "ok"
    /\ Len(objects[1]) = 2 /\ Raised(1) = {}
    /\ \A t \in Instants(1) :
          /\ Cardinality(DOMAIN hist[t]) <= MaxKeys
          /\ BucketView(hist[t]) # ReturnedView(1)

\* ---------------------------------------------------------------------- C8

\* Call r2 started after call r1 had returned, and both have returned.
Consecutive(r1, r2) ==
    /\ r1 # r2
    /\ Returned(r1) /\ Returned(r2)
    /\ r1 \in startedAfter[r2]

\* The bucket did not change from the start of r1 to the return of r2.
NoMutationBetween(r1, r2) == startIdx[r1] = endIdx[r2]

SameSummary(r1, r2) ==
    total_bytes[r1] = total_bytes[r2] /\ sc_counts[r1] = sc_counts[r2]

\* C8 as claimed: two consecutive calls with no mutation of the bucket in
\* between return the same total_bytes and sc_counts, whatever backend calls
\* raised in either.
C8_Idempotent ==
    \A r1, r2 \in Requests :
        Consecutive(r1, r2) /\ NoMutationBetween(r1, r2) => SameSummary(r1, r2)

\* C8 amended: they return the same total_bytes and sc_counts when the list
\* call has the same outcome in both and the same head_object calls raise in
\* both.
C8_IdempotentSameOutcomes ==
    \A r1, r2 \in Requests :
        /\ Consecutive(r1, r2) /\ NoMutationBetween(r1, r2)
        /\ listed[r1] = listed[r2]
        /\ Raised(r1) = Raised(r2)
        => SameSummary(r1, r2)

\* Two consecutive calls on an unchanged bucket of two objects, the lookup of
\* the first object (a GLACIER one) raising in both.
C8_Witness ==
    /\ Consecutive(1, 2) /\ NoMutationBetween(1, 2)
    /\ listed[1] = "ok" /\ listed[2] = "ok"
    /\ Len(objects[1]) = 2 /\ Len(objects[2]) = 2
    /\ Raised(1) = {1} /\ Raised(2) = {1}
    /\ hist[startIdx[1]][objects[1][1].Key].StorageClass = "GLACIER"

\* ---------------------------------------------------------------------- C9

\* The bucket did not change during call r.
Undisturbed(r) == startIdx[r] = endIdx[r]

\* The returned records are one per object of bucket state b.
Complete(r, b) ==
    /\ KeysOf(objects[r]) = DOMAIN b
    /\ Len(objects[r]) = Cardinality(DOMAIN b)
    /\ total_bytes[r] = BucketBytes(b)

\* C9 as claimed: a call whose list call succeeded on a bucket that did not
\* change meanwhile returns one record per object of the bucket, and the
\* bucket's byte usage, whatever the size of the bucket.
C9_InventoryComplete ==
    \A r \in Requests :
        Returned(r) /\ listed[r] = "ok" /\ Undisturbed(r) =>
            Complete(r, hist[endIdx[r]])

\* C9 amended: it does so when the bucket holds no more objects than one list
\* response does; for a larger bucket it returns the records of the first page
\* of keys only, and their bytes.
C9_InventoryCompleteWithinPage ==
    \A r \in Requests :
        Returned(r) /\ listed[r] = "ok" /\ Undisturbed(r) =>
            LET b == hist[endIdx[r]]
            IN  /\ Cardinality(DOMAIN b) <= MaxKeys => Complete(r, b)
                /\ Cardinality(DOMAIN b) > MaxKeys =>
                      /\ Len(objects[r]) = MaxKeys
                      /\ FirstPageOf(b, objects[r])
                      /\ total_bytes[r] = SumSizes(objects[r])

\* A call returned the whole of an unchanged bucket that fills one page.
C9_Witness ==
    /\ Returned(1) /\ listed[1] = "ok" /\ Undisturbed(1)
    /\ Cardinality(DOMAIN hist[endIdx[1]]) = MaxKeys
    /\ Complete(1, hist[endIdx[1]])

\* --------------------------------------------------------------------- C10

\* C10: as long as nothing is deleted, the bucket holds one object more for
\* each upload reported successful.
C10_UploadsAddObjects ==
    ~deleted =>
        Cardinality(DOMAIN bucket) = Cardinality(DOMAIN hist[1]) + nUploaded
====
